---- MODULE Spec2Model ----
(***************************************************************************)
(* A model of wxmann/weather-data:                                         *)
(*   wxdata/http.py                     saveall and its per-URL save job    *)
(*   wxdata/stormevents/tornprocessing  tornado time correction, points()   *)
(*   wxdata/plotting.py                 ColorSamples                        *)
(* Each part has its own specification (SpecSave, SpecTorn, SpecPoints,     *)
(* SpecColor); the variables of the other parts stay at their idle values.  *)
(***************************************************************************)
EXTENDS Integers, Sequences, FiniteSets, TLC

VARIABLES
    \* ---- http.py: saveall ----
    src_dest_map,       \* the save mapping, as the sequence of its (url, dest) items in key order
    override_existing,  \* saveall's flag
    callback,           \* "None", or how the caller's callback behaves: "returns" / "raises"
    files,              \* destination paths that exist on disk
    next_task,          \* pool: index of the next job of the task queue to hand out
    running,            \* pool: indices of the jobs some worker is running
    job_out,            \* pool: outcome of each finished job, by job index
    phase,              \* "idle" | "called" | "returned" | "raised"
    returned,           \* the list saveall returns
    \* ---- tornprocessing.py: _corrected_times_for ----
    torn,               \* the row handed to _corrected_times_for
    torn_out,           \* <<>> or <<result_begin, result_end>>
    \* ---- tornprocessing.py: points ----
    prow,               \* the row handed to points()
    delta,              \* the spacing, in seconds
    pts,                \* <<>> or the outcome of points()
    \* ---- plotting.py: ColorSamples ----
    n_samples,          \* ColorSamples.n_samples
    _iter_index,        \* ColorSamples._iter_index
    yielded,            \* values next() has returned so far, in order
    stops,              \* number of next() calls that raised StopIteration
    lastcall            \* the last call made on the object and what it returned

save_vars == <<src_dest_map, override_existing, callback, files, next_task, running,
               job_out, phase, returned>>
torn_vars == <<torn, torn_out>>
points_vars == <<prow, delta, pts>>
color_vars == <<n_samples, _iter_index, yielded, stops, lastcall>>
vars == <<save_vars, torn_vars, points_vars, color_vars>>

Min(a, b) == IF a <= b THEN a ELSE b

(***************************************************************************)
(* Timestamps and Timedeltas.  pandas keeps both as a count of nanoseconds; *)
(* here the count is split into whole seconds s and 0 <= ns < 10^9.         *)
(***************************************************************************)
NanosPerSecond == 1000 * 1000 * 1000
SecondsPerDay == 24 * 3600

TdNorm(sec, nanos) ==
    [s |-> sec + (nanos \div NanosPerSecond), ns |-> nanos % NanosPerSecond]
TdSeconds(sec) == [s |-> sec, ns |-> 0]
TdAdd(a, b) == TdNorm(a.s + b.s, a.ns + b.ns)
TdSub(a, b) == TdNorm(a.s - b.s, a.ns - b.ns)
TdLt(a, b) == a.s < b.s \/ (a.s = b.s /\ a.ns < b.ns)
TdGe(a, b) == ~TdLt(a, b)
\* a % m for a >= 0 and a modulus m of whole seconds
TdMod(a, m) == [s |-> a.s % m.s, ns |-> a.ns]
\* Timedelta.seconds: the seconds component, the whole days taken out
TdSecondsField(a) == a.s % SecondsPerDay
\* pd.Timedelta(value) of a bare integer: the value counts nanoseconds
TimedeltaOfInt(value) == TdNorm(0, value)

_ONE_DAY == TdSeconds(SecondsPerDay)
_ONE_HOUR == TdSeconds(3600)
_ONE_MINUTE == TdSeconds(60)
_TORNADO_LONVEVITY_LIMIT == TdSeconds(4 * 3600)

(***************************************************************************)
(* tornprocessing.py: _corrected_times_for.  tor_length is in tenths of a  *)
(* mile, so torlen < 0.3 is torlen < 3, and                                 *)
(* torlen / (seconds / 3600) < 8 is torlen * 3600 < 80 * seconds.           *)
(***************************************************************************)
MphBelow8(torlen, elapsed) == torlen * 3600 < 80 * TdSecondsField(elapsed)

\* faulty variant of _correct_only_end: the brief-touchdown test reads torlen <= 0.3
_correct_only_end_le_length(begin, end, torlen) ==
    LET elapsed == TdSub(end, begin) IN
    IF TdGe(elapsed, _TORNADO_LONVEVITY_LIMIT)
    THEN IF torlen <= 3 THEN begin
         ELSE IF TdGe(end, TdAdd(begin, _ONE_DAY)) THEN TdAdd(TdMod(elapsed, _ONE_DAY), begin)
         ELSE begin
    ELSE IF TdGe(elapsed, _ONE_HOUR) /\ MphBelow8(torlen, elapsed)
         THEN LET hours == TdSecondsField(elapsed) \div 3600 IN
              TdAdd(TdAdd(TdMod(elapsed, _ONE_HOUR), TimedeltaOfInt(hours - 1)), begin)
    ELSE end

_correct_only_end(begin, end, torlen) ==
    LET elapsed == TdSub(end, begin) IN
    IF TdGe(elapsed, _TORNADO_LONVEVITY_LIMIT)
    THEN IF torlen < 3 THEN begin
         ELSE IF TdGe(end, TdAdd(begin, _ONE_DAY)) THEN TdAdd(TdMod(elapsed, _ONE_DAY), begin)
         ELSE begin
    ELSE IF TdGe(elapsed, _ONE_HOUR) /\ MphBelow8(torlen, elapsed)
         THEN LET hours == TdSecondsField(elapsed) \div 3600 IN
              TdAdd(TdAdd(TdMod(elapsed, _ONE_HOUR), TimedeltaOfInt(hours - 1)), begin)
    ELSE end

\* faulty variant of _corrected_times_for: swapped times are assumed up to and
\* including 4 hours
_corrected_times_for_le_limit(row) ==
    LET begin_date_time == row.begin_date_time
        end_date_time == row.end_date_time
        torlen == row.tor_length
    IN
    IF row.event_type # "Tornado" THEN <<begin_date_time, end_date_time>>
    ELSE IF TdGe(end_date_time, begin_date_time)
    THEN <<begin_date_time, _correct_only_end(begin_date_time, end_date_time, torlen)>>
    ELSE LET elapsed_rev == TdSub(begin_date_time, end_date_time) IN
         IF ~TdLt(_TORNADO_LONVEVITY_LIMIT, elapsed_rev)
         THEN <<end_date_time, _correct_only_end(end_date_time, begin_date_time, torlen)>>
         ELSE <<begin_date_time, TdAdd(end_date_time, _ONE_DAY)>>

_corrected_times_for(row) ==
    LET begin_date_time == row.begin_date_time
        end_date_time == row.end_date_time
        torlen == row.tor_length
    IN
    IF row.event_type # "Tornado" THEN <<begin_date_time, end_date_time>>
    ELSE IF TdGe(end_date_time, begin_date_time)
    THEN <<begin_date_time, _correct_only_end(begin_date_time, end_date_time, torlen)>>
    ELSE LET elapsed_rev == TdSub(begin_date_time, end_date_time) IN
         IF TdLt(elapsed_rev, _TORNADO_LONVEVITY_LIMIT)
         THEN <<end_date_time, _correct_only_end(end_date_time, begin_date_time, torlen)>>
         ELSE <<begin_date_time, TdAdd(end_date_time, _ONE_DAY)>>

\* ---- inputs of the tornado specifications ----
MaxSteps == 100
StepSeconds == 15 * 60
BaseSecond == 10 * SecondsPerDay
BeginSeconds == {BaseSecond, BaseSecond + 37 * 60}
Offsets == {k * StepSeconds : k \in (0 - MaxSteps)..MaxSteps}
TorLengths == {0, 2, 3, 10, 79, 80, 81, 150, 200, 400}
EventTypes == {"Tornado", "Hail"}

IdleRow == [event_type |-> "idle"]

TornRows ==
    {[event_type |-> e, begin_date_time |-> TdSeconds(b),
      end_date_time |-> TdSeconds(b + o), tor_length |-> l] :
        e \in EventTypes, b \in BeginSeconds, o \in Offsets, l \in TorLengths}

(***************************************************************************)
(* http.py: the save result and the per-URL save job.                       *)
(* A URL is [scheme, path]; a destination path is a number.  A response is  *)
(* [type, status_code]: type "requests" for what requests.get returns,      *)
(* "addinfourl" for what urlopen returns on an ftp URL (it has no           *)
(* status_code attribute, written -1), "None" for no response object.       *)
(***************************************************************************)
NoResponse == [type |-> "None", status_code |-> -1]
FtpResponse == [type |-> "addinfourl", status_code |-> -1]
HttpResponse(status) == [type |-> "requests", status_code |-> status]

urlparse_scheme(url) == url.scheme

_SaveResult(url, dest, response, executed_request) ==
    [url |-> url, dest |-> dest, response |-> response, exceptions |-> <<>>,
     output |-> <<>>, _executed_request |-> executed_request, _expected_status |-> 200]

\* the property _SaveResult.success: "True", "False", or the error reading it raises
\* faulty variant of success: the callback errors are not looked at
success_ignoring_exceptions(r) ==
    IF r._executed_request /\ r.response.type = "addinfourl" THEN "AttributeError"
    ELSE LET http_success ==
                 IF r._executed_request
                 THEN r.response.type # "None" /\ r.response.status_code = r._expected_status
                 ELSE TRUE
         IN IF http_success THEN "True" ELSE "False"

success(r) ==
    IF r._executed_request /\ r.response.type = "addinfourl" THEN "AttributeError"
    ELSE LET http_success ==
                 IF r._executed_request
                 THEN r.response.type # "None" /\ r.response.status_code = r._expected_status
                 ELSE TRUE
         IN IF http_success /\ r.exceptions = <<>> THEN "True" ELSE "False"

\* requests' Response.raise_for_status raises HTTPError for a 4xx or 5xx status
raise_for_status_raises(response) ==
    400 <= response.status_code /\ response.status_code < 600

\* raise_for_bad_response raises DataRetrievalException
raise_for_bad_response_raises(resp, expected_status_code) ==
    resp.type = "None" \/ resp.status_code # expected_status_code

\* wrapped_callback: the save result after the callback ran on arg
wrapped_callback(cb, arg, save_result) ==
    IF cb = "None" THEN save_result
    ELSE IF cb = "returns" THEN [save_result EXCEPT !.output = <<"ret", arg>>]
    ELSE [save_result EXCEPT !.exceptions = Append(@, "CallbackError")]

CallbackSteps(cb, arg) == IF cb = "None" THEN <<>> ELSE <<<<"callback", arg>>>>

Lookup(map, url) == map[CHOOSE i \in DOMAIN map : map[i].url = url].dest

\* What one run of _save_and_exec_callback does and gives back.  fs is the set of
\* existing files, net the response the network would give.  steps lists the
\* effects in the order the code performs them; raised names the exception that
\* leaves the function ("" when it returns result); existed tells whether dest
\* was on disk when the job began.
JobOutcome(raised, result, steps, existed) ==
    [raised |-> raised, result |-> result, steps |-> steps, existed |-> existed]

\* faulty variant of _save_and_exec_callback: the existence check is made on the
\* http branch only
_save_and_exec_callback_skip_needs_http(url, map, override, cb, fs, net) ==
    LET dest == Lookup(map, url)
        scheme == urlparse_scheme(url)
        checks == IF override THEN <<>> ELSE <<<<"isfile", dest>>>>
        norun == _SaveResult(url, dest, NoResponse, FALSE)
    IN
    IF scheme = "ftp"
    THEN JobOutcome("", wrapped_callback(cb, dest, _SaveResult(url, dest, FtpResponse, TRUE)),
                    checks \o <<<<"urlopen", url>>, <<"write", dest>>>> \o CallbackSteps(cb, dest),
                    dest \in fs)
    ELSE IF scheme \in {"http", "https"}
    THEN IF ~override /\ dest \in fs
         THEN JobOutcome("", wrapped_callback(cb, dest, norun),
                         checks \o CallbackSteps(cb, dest), dest \in fs)
         ELSE LET result == _SaveResult(url, dest, net, TRUE) IN
              IF net.type = "None"
              THEN JobOutcome("", result, checks \o <<<<"get", url>>>>, dest \in fs)
              ELSE IF raise_for_status_raises(net)
              THEN JobOutcome("", [result EXCEPT !.exceptions = Append(@, "HTTPError")],
                              checks \o <<<<"get", url>>>>, dest \in fs)
              ELSE IF raise_for_bad_response_raises(net, 200)
              THEN JobOutcome("DataRetrievalException", result,
                              checks \o <<<<"get", url>>>>, dest \in fs)
              ELSE JobOutcome("", wrapped_callback(cb, dest, result),
                              checks \o <<<<"get", url>>, <<"write", dest>>>>
                                     \o CallbackSteps(cb, dest),
                              dest \in fs)
    ELSE JobOutcome("ValueError", norun, checks, dest \in fs)

_save_and_exec_callback(url, map, override, cb, fs, net) ==
    LET dest == Lookup(map, url)
        scheme == urlparse_scheme(url)
        checks == IF override THEN <<>> ELSE <<<<"isfile", dest>>>>
        norun == _SaveResult(url, dest, NoResponse, FALSE)
    IN
    IF ~override /\ dest \in fs
    THEN JobOutcome("", wrapped_callback(cb, dest, norun),
                    checks \o CallbackSteps(cb, dest), dest \in fs)
    ELSE IF scheme = "ftp"
    THEN JobOutcome("", wrapped_callback(cb, dest, _SaveResult(url, dest, FtpResponse, TRUE)),
                    checks \o <<<<"urlopen", url>>, <<"write", dest>>>> \o CallbackSteps(cb, dest),
                    dest \in fs)
    ELSE IF scheme \in {"http", "https"}
    THEN LET result == _SaveResult(url, dest, net, TRUE) IN
         IF net.type = "None"
         THEN JobOutcome("", result, checks \o <<<<"get", url>>>>, dest \in fs)
         ELSE IF raise_for_status_raises(net)
         THEN JobOutcome("", [result EXCEPT !.exceptions = Append(@, "HTTPError")],
                         checks \o <<<<"get", url>>>>, dest \in fs)
         ELSE IF raise_for_bad_response_raises(net, 200)
         THEN JobOutcome("DataRetrievalException", result,
                         checks \o <<<<"get", url>>>>, dest \in fs)
         ELSE JobOutcome("", wrapped_callback(cb, dest, result),
                         checks \o <<<<"get", url>>, <<"write", dest>>>>
                                \o CallbackSteps(cb, dest),
                         dest \in fs)
    ELSE JobOutcome("ValueError", norun, checks, dest \in fs)

\* the files on disk after a job that performed steps
FilesAfter(fs, steps) ==
    fs \cup {steps[k][2] : k \in {j \in DOMAIN steps : steps[j][1] = "write"}}

\* ---- inputs of the saveall specification ----
MaxItems == 3
PoolCap == 4
Schemes == {"http", "https", "ftp", "gopher"}
Statuses == {200, 204, 404}
NetOutcomes == {HttpResponse(st) : st \in Statuses} \cup {NoResponse}
Callbacks == {"None", "returns", "raises"}
Pending == [raised |-> "pending"]

\* the save mappings: item i has its own URL (path i) and its own destination
SaveMappings ==
    UNION {{[i \in 1..n |-> [url |-> [scheme |-> sch[i], path |-> i], dest |-> i]] :
                sch \in [1..n -> Schemes]} : n \in 0..MaxItems}

Keys(map) == [i \in DOMAIN map |-> map[i].url]

(***************************************************************************)
(* http.py: saveall.  At most one entry: the jobs run in the caller, in key *)
(* order.  More entries: Pool(min(len, 4)).map hands the jobs out in key    *)
(* order to the idle workers, the workers finish in any order, each outcome *)
(* is stored at its job's index, and map returns the list (or re-raises a   *)
(* job's exception) once every job has finished.                            *)
(***************************************************************************)
numprocesses(map) == Min(Len(map), PoolCap)

NetFor(url) == IF urlparse_scheme(url) \in {"http", "https"} THEN NetOutcomes ELSE {NoResponse}

SaveIdle ==
    /\ src_dest_map = <<>>
    /\ override_existing = FALSE
    /\ callback = "None"
    /\ files = {}
    /\ next_task = 1
    /\ running = {}
    /\ job_out = <<>>
    /\ phase = "idle"
    /\ returned = <<>>

SaveInit ==
    /\ src_dest_map \in SaveMappings
    /\ override_existing \in BOOLEAN
    /\ callback \in Callbacks
    /\ files \in SUBSET {src_dest_map[i].dest : i \in DOMAIN src_dest_map}
    /\ next_task = 1
    /\ running = {}
    /\ job_out = [i \in DOMAIN src_dest_map |-> Pending]
    /\ phase = "called"
    /\ returned = <<>>

\* len(src_dest_map) <= 1: list(map(save_and_exec, src_dest_map.keys()))
SequentialMap ==
    /\ phase = "called"
    /\ Len(src_dest_map) <= 1
    /\ IF Len(src_dest_map) = 0
       THEN /\ phase' = "returned"
            /\ returned' = <<>>
            /\ UNCHANGED <<files, job_out>>
       ELSE \E net \in NetFor(src_dest_map[1].url) :
              LET out == _save_and_exec_callback(src_dest_map[1].url, src_dest_map,
                                                 override_existing, callback, files, net)
              IN /\ job_out' = [job_out EXCEPT ![1] = out]
                 /\ files' = FilesAfter(files, out.steps)
                 /\ phase' = IF out.raised = "" THEN "returned" ELSE "raised"
                 /\ returned' = IF out.raised = "" THEN <<out.result>> ELSE <<>>
    /\ UNCHANGED <<src_dest_map, override_existing, callback, next_task, running>>
    /\ UNCHANGED <<torn_vars, points_vars, color_vars>>

\* an idle worker of the pool takes the next job of the task queue
WorkerTake ==
    /\ phase = "called"
    /\ Len(src_dest_map) > 1
    /\ next_task <= Len(src_dest_map)
    /\ Cardinality(running) < numprocesses(src_dest_map)
    /\ running' = running \cup {next_task}
    /\ next_task' = next_task + 1
    /\ UNCHANGED <<src_dest_map, override_existing, callback, files, job_out, phase, returned>>
    /\ UNCHANGED <<torn_vars, points_vars, color_vars>>

\* a worker runs its job to the end and the outcome is stored at the job's index
WorkerFinish(i) ==
    /\ phase = "called"
    /\ i \in running
    /\ \E net \in NetFor(src_dest_map[i].url) :
         LET out == _save_and_exec_callback(src_dest_map[i].url, src_dest_map,
                                            override_existing, callback, files, net)
         IN /\ job_out' = [job_out EXCEPT ![i] = out]
            /\ files' = FilesAfter(files, out.steps)
    /\ running' = running \ {i}
    /\ UNCHANGED <<src_dest_map, override_existing, callback, next_task, phase, returned>>
    /\ UNCHANGED <<torn_vars, points_vars, color_vars>>

\* pool.map ends: every job has finished
PoolMapEnd ==
    /\ phase = "called"
    /\ Len(src_dest_map) > 1
    /\ \A i \in DOMAIN job_out : job_out[i].raised # "pending"
    /\ IF \E i \in DOMAIN job_out : job_out[i].raised # ""
       THEN phase' = "raised" /\ returned' = <<>>
       ELSE phase' = "returned" /\ returned' = [i \in DOMAIN job_out |-> job_out[i].result]
    /\ UNCHANGED <<src_dest_map, override_existing, callback, files, next_task, running, job_out>>
    /\ UNCHANGED <<torn_vars, points_vars, color_vars>>

(***************************************************************************)
(* tornprocessing.py: points.  Coordinates are in hundredths of a degree; a *)
(* value of linspace is the fraction n / d.                                 *)
(***************************************************************************)
longevity(row) == TdSub(row.end_date_time, row.begin_date_time)

\* np.linspace(start, stop, num) for num >= 1; stop is the last value when num >= 2
linspace(start, stop, num) ==
    IF num = 1 THEN <<[n |-> start, d |-> 1]>>
    ELSE [i \in 1..num |-> [n |-> start * (num - 1) + (i - 1) * (stop - start), d |-> num - 1]]

\* whole seconds on both sides: elapsed_min // spacing_min is the floor of their quotient
numpoints_of(row, spacing) == (longevity(row).s \div spacing.s) + 1

points(row, spacing) ==
    LET num == numpoints_of(row, spacing) IN
    IF num < 0 THEN [raised |-> "ValueError", points |-> <<>>]
    ELSE IF num = 0 THEN [raised |-> "", points |-> <<>>]
    ELSE LET lat_space == linspace(row.begin_lat, row.end_lat, num)
             lon_space == linspace(row.begin_lon, row.end_lon, num)
         IN [raised |-> "", points |-> [i \in 1..num |-> <<lat_space[i], lon_space[i]>>]]

\* ---- inputs of the points specification ----
MaxPointSteps == 8
PointStepSeconds == 30
Spacings == {TdSeconds(30), _ONE_MINUTE, TdSeconds(90)}
PointRows ==
    {[begin_date_time |-> TdSeconds(BaseSecond),
      end_date_time |-> TdSeconds(BaseSecond + k * PointStepSeconds),
      begin_lat |-> 3500, begin_lon |-> -9000, end_lat |-> elat, end_lon |-> elon] :
        k \in (0 - MaxPointSteps)..MaxPointSteps, elat \in {3500, 3510}, elon \in {-9000, -8980}}

PointsIdle == prow = IdleRow /\ delta = _ONE_MINUTE /\ pts = <<>>
PointsInit == prow \in PointRows /\ delta \in Spacings /\ pts = <<>>

CallPoints ==
    /\ prow # IdleRow
    /\ pts = <<>>
    /\ pts' = <<points(prow, delta)>>
    /\ UNCHANGED <<prow, delta>>
    /\ UNCHANGED <<save_vars, torn_vars, color_vars>>

(***************************************************************************)
(* tornprocessing.py: one row through _corrected_times_for.                 *)
(***************************************************************************)
TornIdle == torn = IdleRow /\ torn_out = <<>>
TornInit == torn \in TornRows /\ torn_out = <<>>

CorrectRow ==
    /\ torn # IdleRow
    /\ torn_out = <<>>
    /\ torn_out' = _corrected_times_for(torn)
    /\ UNCHANGED torn
    /\ UNCHANGED <<save_vars, points_vars, color_vars>>

(***************************************************************************)
(* plotting.py: ColorSamples.  A color is the index of the colormap's       *)
(* 256-entry table that Normalize(0, n - 1) followed by the colormap picks. *)
(***************************************************************************)
scalar_map_to_rgba(n, x) ==
    IF n - 1 = 0 THEN 0
    ELSE Min((x * 256) \div (n - 1), 255)

__getitem__(n, item) == scalar_map_to_rgba(n, item)
__len__(n) == n

\* __next__: what it gives back and the cursor afterwards
\* faulty variant of __next__: the cursor goes back to 0 on exhaustion
__next___restarting(n, index) ==
    IF index >= n
    THEN [stop |-> TRUE, ret |-> 0, index |-> 0]
    ELSE [stop |-> FALSE, ret |-> scalar_map_to_rgba(n, index), index |-> index + 1]

__next__(n, index) ==
    IF index >= n
    THEN [stop |-> TRUE, ret |-> 0, index |-> index]
    ELSE [stop |-> FALSE, ret |-> scalar_map_to_rgba(n, index), index |-> index + 1]

\* ---- inputs of the ColorSamples specification ----
MaxSamples == 5
MaxStops == 2
NoCall == [op |-> "none", arg |-> 0, ret |-> 0]

ColorIdle ==
    n_samples = 0 /\ _iter_index = 0 /\ yielded = <<>> /\ stops = MaxStops /\ lastcall = NoCall
ColorInit ==
    n_samples \in 0..MaxSamples /\ _iter_index = 0 /\ yielded = <<>> /\ stops = 0
    /\ lastcall = NoCall

CallNext ==
    /\ stops < MaxStops
    /\ LET r == __next__(n_samples, _iter_index) IN
         /\ _iter_index' = r.index
         /\ yielded' = IF r.stop THEN yielded ELSE Append(yielded, r.ret)
         /\ stops' = IF r.stop THEN stops + 1 ELSE stops
         /\ lastcall' = [op |-> IF r.stop THEN "StopIteration" ELSE "next", arg |-> 0,
                         ret |-> r.ret]
    /\ UNCHANGED n_samples
    /\ UNCHANGED <<save_vars, torn_vars, points_vars>>

CallGetItem(i) ==
    /\ stops < MaxStops
    /\ lastcall' = [op |-> "getitem", arg |-> i, ret |-> __getitem__(n_samples, i)]
    /\ UNCHANGED <<n_samples, _iter_index, yielded, stops>>
    /\ UNCHANGED <<save_vars, torn_vars, points_vars>>

CallLen ==
    /\ stops < MaxStops
    /\ lastcall' = [op |-> "len", arg |-> 0, ret |-> __len__(n_samples)]
    /\ UNCHANGED <<n_samples, _iter_index, yielded, stops>>
    /\ UNCHANGED <<save_vars, torn_vars, points_vars>>

(***************************************************************************)
(* The specifications.                                                      *)
(***************************************************************************)
InitSave == SaveInit /\ TornIdle /\ PointsIdle /\ ColorIdle
NextSave ==
    \/ SequentialMap
    \/ WorkerTake
    \/ \E i \in DOMAIN src_dest_map : WorkerFinish(i)
    \/ PoolMapEnd
SpecSave == InitSave /\ [][NextSave]_vars

InitTorn == SaveIdle /\ TornInit /\ PointsIdle /\ ColorIdle
NextTorn == CorrectRow
SpecTorn == InitTorn /\ [][NextTorn]_vars

InitPoints == SaveIdle /\ TornIdle /\ PointsInit /\ ColorIdle
NextPoints == CallPoints
SpecPoints == InitPoints /\ [][NextPoints]_vars

InitColor == SaveIdle /\ TornIdle /\ PointsIdle /\ ColorInit
NextColor ==
    \/ CallNext
    \/ \E i \in 0..(n_samples - 1) : CallGetItem(i)
    \/ CallLen
SpecColor == InitColor /\ [][NextColor]_vars

(***************************************************************************)
(* Properties.                                                              *)
(***************************************************************************)
Finished == {i \in DOMAIN job_out : job_out[i].raised # "pending"}
StepKinds(steps) == [k \in DOMAIN steps |-> steps[k][1]]
NetworkSteps(steps) == {k \in DOMAIN steps : steps[k][1] \in {"get", "urlopen"}}
CallbackStepsOf(steps) == {k \in DOMAIN steps : steps[k][1] = "callback"}
Skipped(i) == job_out[i].existed /\ ~override_existing
SchemeOf(i) == src_dest_map[i].url.scheme

\* C1: saveall never raises for an individual item's failure (bad HTTP status,
\* unsupported scheme, callback raising): it always ends by returning.
C1_SaveallNeverRaises == phase # "raised"

\* C2: for every save mapping with distinct URL keys saveall returns exactly one
\* save result per key, the i-th result belonging to the i-th key, whatever the
\* order the workers finish in, on the sequential and on the pooled path.
C2_OneResultPerKeyInOrder ==
    phase \in {"returned", "raised"} =>
        /\ phase = "returned"
        /\ Len(returned) = Len(src_dest_map)
        /\ \A i \in DOMAIN src_dest_map : returned[i].url = Keys(src_dest_map)[i]

\* C3: an item whose destination exists while override_existing is false, whatever
\* its scheme, makes no network call, gets a result with executed_request false and
\* no response, has the callback (if given) invoked exactly once, with the
\* destination path, and is a success when the callback does not raise.
C3_SkipExisting ==
    \A i \in Finished :
        Skipped(i) =>
            LET out == job_out[i] IN
            /\ out.raised = ""
            /\ NetworkSteps(out.steps) = {}
            /\ out.result._executed_request = FALSE
            /\ out.result.response = NoResponse
            /\ callback # "None" =>
                   /\ Cardinality(CallbackStepsOf(out.steps)) = 1
                   /\ \A k \in CallbackStepsOf(out.steps) :
                          out.steps[k] = <<"callback", src_dest_map[i].dest>>
            /\ callback = "None" => CallbackStepsOf(out.steps) = {}
            /\ callback # "raises" => success(out.result) = "True"

C3_Witness ==
    \E i \in Finished :
        /\ Skipped(i)
        /\ SchemeOf(i) = "gopher"
        /\ callback = "returns"
        /\ phase = "returned"
        /\ Len(src_dest_map) > 1

\* C4: in every save result saveall produces, success is never true when the
\* callback raised for the item, and success is true exactly when the error list
\* is empty and either no request was executed or the executed request's status
\* code equals the expected status 200.
C4_SuccessDefinition ==
    \A i \in Finished :
        job_out[i].raised = "" =>
            LET out == job_out[i]
                r == out.result
                callback_raised == callback = "raises" /\ CallbackStepsOf(out.steps) # {}
            IN
            /\ callback_raised => success(r) # "True"
            /\ success(r) = "True" <=>
                   /\ r.exceptions = <<>>
                   /\ \/ ~r._executed_request
                      \/ r.response.type = "requests" /\ r.response.status_code = 200

C4_Witness ==
    \E i \in Finished :
        /\ job_out[i].raised = ""
        /\ callback = "raises"
        /\ CallbackStepsOf(job_out[i].steps) # {}
        /\ job_out[i].result._executed_request
        /\ job_out[i].result.response = HttpResponse(200)
        /\ success(job_out[i].result) = "False"

\* C5: for an http/https item that is not skipped, when the HTTP status indicates
\* failure the HTTP error is captured in the result's error list and neither the
\* file write nor the callback happens; for every other status the job performs
\* network call, file write, callback in that order and returns its result.
C5_HttpStepsForEveryStatus ==
    \A i \in Finished :
        (SchemeOf(i) \in {"http", "https"} /\ ~Skipped(i)) =>
            LET out == job_out[i]
                kinds == StepKinds(out.steps)
                after_check == IF override_existing THEN kinds ELSE Tail(kinds)
            IN
            \/ /\ out.raised = ""
               /\ out.result.response.type = "None"
            \/ /\ out.raised = ""
               /\ out.result.response.type = "requests"
               /\ raise_for_status_raises(out.result.response)
               /\ out.result.exceptions = <<"HTTPError">>
               /\ after_check = <<"get">>
            \/ /\ out.raised = ""
               /\ out.result.response.type = "requests"
               /\ ~raise_for_status_raises(out.result.response)
               /\ after_check = IF callback = "None" THEN <<"get", "write">>
                                ELSE <<"get", "write", "callback">>

\* C6: a Tornado row whose end precedes its begin: when begin - end is strictly
\* less than 4 hours the result is (old end, end-only correction of (old end,
\* old begin)); when it is 4 hours or more the result is (begin, end + 1 day).
\* A row whose event_type is not "Tornado" is returned unchanged.
C6_ReversedTimes ==
    torn_out # <<>> =>
        LET b == torn.begin_date_time
            e == torn.end_date_time
        IN
        /\ torn.event_type # "Tornado" => torn_out = <<b, e>>
        /\ (torn.event_type = "Tornado" /\ e.s < b.s) =>
               IF b.s - e.s < 4 * 3600
               THEN torn_out = <<e, _correct_only_end(e, b, torn.tor_length)>>
               ELSE torn_out = <<b, [s |-> e.s + 24 * 3600, ns |-> 0]>>

C6_Witness ==
    /\ torn_out # <<>>
    /\ torn.event_type = "Tornado"
    /\ torn.begin_date_time.s - torn.end_date_time.s = 4 * 3600
    /\ torn_out[2].s = torn.end_date_time.s + 24 * 3600

\* C7: a Tornado row with end >= begin and elapsed = end - begin of at least 4
\* hours keeps its begin, and its corrected end is begin when the path is shorter
\* than 0.3 miles, otherwise begin + (elapsed mod 1 day) when end >= begin + 1 day,
\* otherwise begin.
C7_LongLived ==
    (torn_out # <<>> /\ torn.event_type = "Tornado"
        /\ torn.end_date_time.s - torn.begin_date_time.s >= 4 * 3600) =>
        LET b == torn.begin_date_time.s
            elapsed == torn.end_date_time.s - b
            expected == IF torn.tor_length < 3 THEN b
                        ELSE IF elapsed >= 24 * 3600 THEN b + (elapsed % (24 * 3600))
                        ELSE b
        IN
        /\ torn_out[1] = torn.begin_date_time
        /\ torn_out[2] = [s |-> expected, ns |-> 0]

C7_Witness ==
    /\ torn_out # <<>>
    /\ torn.event_type = "Tornado"
    /\ torn.tor_length = 3
    /\ torn.end_date_time.s - torn.begin_date_time.s = 25 * 3600
    /\ torn_out[2].s = torn.begin_date_time.s + 3600

\* C8: the output of points() always holds at least 1 point, for every tornado row
\* and every positive spacing: there are floor(elapsed / spacing) + 1 >= 1 points,
\* the first is the begin coordinate and, with 2 points or more, the last is the
\* end coordinate.
C8_AtLeastOnePoint ==
    pts # <<>> =>
        LET out == pts[1]
            num == Len(out.points)
        IN
        /\ out.raised = ""
        /\ num >= 1
        /\ num = ((prow.end_date_time.s - prow.begin_date_time.s) \div delta.s) + 1
        /\ out.points[1][1].n = prow.begin_lat * out.points[1][1].d
        /\ out.points[1][2].n = prow.begin_lon * out.points[1][2].d
        /\ num >= 2 =>
               /\ out.points[num][1].n = prow.end_lat * out.points[num][1].d
               /\ out.points[num][2].n = prow.end_lon * out.points[num][2].d

\* C9: a color-sample sequence of n samples, under any interleaving of index
\* lookups, length queries and next() calls: the k-th value next() yields is the
\* value for index k-1, at most n values are yielded and exactly n before
\* exhaustion is signalled, after which no next() yields again; sample[i] returns
\* the value for index i and len() returns n, and neither moves the cursor.
C9_State ==
    /\ Len(yielded) <= n_samples
    /\ \A k \in DOMAIN yielded : yielded[k] = scalar_map_to_rgba(n_samples, k - 1)
    /\ stops > 0 => Len(yielded) = n_samples
    /\ lastcall.op = "getitem" => lastcall.ret = scalar_map_to_rgba(n_samples, lastcall.arg)
    /\ lastcall.op = "len" => lastcall.ret = n_samples
    /\ lastcall.op = "next" => lastcall.ret = yielded[Len(yielded)]

C9_Step ==
    /\ stops > 0 => (yielded' = yielded /\ lastcall'.op # "next")
    /\ lastcall'.op \in {"getitem", "len"} =>
           (_iter_index' = _iter_index /\ yielded' = yielded /\ stops' = stops)
    /\ lastcall'.op = "next" => Len(yielded') = Len(yielded) + 1

C9_ColorSamples == []C9_State /\ [][C9_Step]_vars

C9_Witness ==
    /\ n_samples = 3
    /\ stops = 2
    /\ Len(yielded) = 3
    /\ yielded[2] # yielded[1]
    /\ yielded[3] # yielded[2]
    /\ lastcall.op = "StopIteration"

\* C10: a Tornado row with end >= begin, 1 hour <= elapsed < 4 hours and a speed
\* below 8 mph gets the corrected end begin + (elapsed mod 1 hour) + (h - 1) hours
\* with h = elapsed_seconds // 3600, exactly one hour before the recorded end; with
\* a speed of 8 mph or more, or elapsed under 1 hour, the end is unchanged.
C10_HourOffByOne ==
    (torn_out # <<>> /\ torn.event_type = "Tornado"
        /\ torn.end_date_time.s >= torn.begin_date_time.s
        /\ torn.end_date_time.s - torn.begin_date_time.s < 4 * 3600) =>
        LET b == torn.begin_date_time.s
            elapsed == torn.end_date_time.s - b
            h == elapsed \div 3600
            slow == torn.tor_length * 3600 < 80 * elapsed
        IN
        torn_out[2] = IF elapsed >= 3600 /\ slow
                      THEN [s |-> b + (elapsed % 3600) + (h - 1) * 3600, ns |-> 0]
                      ELSE torn.end_date_time

====
